---------------------------- MODULE Spec2Model ----------------------------
(***************************************************************************)
(* A model of the parameter store of PyMAPDL                               *)
(* (src/ansys/mapdl/core/parameters.py) and of the helpers it uses from    *)
(* src/ansys/mapdl/core/misc.py.                                           *)
(*                                                                         *)
(* Python strings are sequences of pieces.  A piece is a pair              *)
(* <<kind, text>>: <<"ch", c>> is the single character c, <<"lit", s>> is  *)
(* the run of characters s (a keyword, the listing header, a run of        *)
(* blanks) and <<"frag", s>> is a proper suffix of the run s, which is     *)
(* what a slice leaves of a run it cuts.  Offsets are counted in           *)
(* characters, so slicing is done as the code does it.                     *)
(***************************************************************************)
EXTENDS Integers, Sequences, FiniteSets, TLC

VARIABLES
    remote,      \* the session's parameters: canonical name -> parameter
    showLead,    \* Parameters.show_leading_underscore_parameters
    showTrail,   \* Parameters.show_trailing_underscore_parameters
    savedLead,   \* _full_parameter_output.show_leading_underscore_parameters
    savedTrail,  \* _full_parameter_output.show_trailing_underscore_parameters
    logLevel,    \* the session's log level
    isLocal,     \* mapdl._local: the client and the session share a file space
    rfiles,      \* the session's file space: file name -> the numbers it holds
    input,       \* the argument of a pure function under check
    scopes,      \* the caller's open "with full_parameters_output" blocks:
                 \* the flags at the entry of each, the innermost last
    routine,     \* the session's routine (processor)
    last         \* what the last call did: its arguments, outcome and commands

vars == <<remote, showLead, showTrail, savedLead, savedTrail, logLevel, isLocal, rfiles,
          input, scopes, routine, last>>

(***************************************************************************)
(* Strings                                                                 *)
(***************************************************************************)
Ch(c) == <<"ch", c>>
Lit(s) == <<"lit", s>>
NL == Ch("\n")
SP == Ch(" ")

\* the literal interp_star_status searches for (39 characters)
HeaderLit == "NAME                              VALUE"
\* the rest of the header line the session prints (40 characters)
HeaderTail == "                        TYPE  DIMENSIONS"

PieceWidth(p) == IF p[1] = "frag" THEN 1 ELSE Len(p[2])
IsSpace(p) == p[1] # "frag" /\ p[2] \in {" ", "\n", "  ", "    "}

\* str.find(HeaderLit): the offset of its first occurrence, -1 when absent
RECURSIVE FindFrom(_, _, _)
FindFrom(s, i, off) ==
    IF i > Len(s) THEN -1
    ELSE IF s[i] = Lit(HeaderLit) THEN off
    ELSE FindFrom(s, i + 1, off + PieceWidth(s[i]))
FindHeader(s) == FindFrom(s, 1, 0)

\* s[n:] for n >= 0: a run the cut falls in keeps a suffix
RECURSIVE SliceAt(_, _, _)
SliceAt(s, i, n) ==
    IF i > Len(s) THEN <<>>
    ELSE IF n = 0 THEN SubSeq(s, i, Len(s))
    ELSE IF PieceWidth(s[i]) <= n THEN SliceAt(s, i + 1, n - PieceWidth(s[i]))
    ELSE IF IsSpace(s[i]) THEN <<SP>> \o SubSeq(s, i + 1, Len(s))
    ELSE <<<<"frag", s[i][2]>>>> \o SubSeq(s, i + 1, Len(s))
SliceFrom(s, n) == SliceAt(s, 1, n)

\* str.splitlines(): the lines, without their line ends
RECURSIVE SplitLinesAcc(_, _, _)
SplitLinesAcc(s, i, cur) ==
    IF i > Len(s) THEN (IF cur = <<>> THEN <<>> ELSE <<cur>>)
    ELSE IF s[i] = NL THEN <<cur>> \o SplitLinesAcc(s, i + 1, <<>>)
    ELSE SplitLinesAcc(s, i + 1, Append(cur, s[i]))
SplitLines(s) == SplitLinesAcc(s, 1, <<>>)

\* str.split(): the maximal runs of non-blank characters
RECURSIVE SplitAcc(_, _, _)
SplitAcc(s, i, cur) ==
    IF i > Len(s) THEN (IF cur = <<>> THEN <<>> ELSE <<cur>>)
    ELSE IF IsSpace(s[i])
         THEN (IF cur = <<>> THEN <<>> ELSE <<cur>>) \o SplitAcc(s, i + 1, <<>>)
    ELSE SplitAcc(s, i + 1, Append(cur, s[i]))
Split(s) == SplitAcc(s, 1, <<>>)

(***************************************************************************)
(* Numerals: float() and int() of a token                                  *)
(***************************************************************************)
DigitChars == <<"0", "1", "2", "3", "4", "5", "6", "7", "8", "9">>
Digits == {DigitChars[i] : i \in 1..10}
DigitVal(c) == (CHOOSE i \in 1..10 : DigitChars[i] = c) - 1

\* A float is int * 10^scale + fn * 10^(-fp): fn counts the decimals, fp is
\* the number of decimal places (no trailing zero).
Float(i, sc, fn, fp) == [int |-> i, scale |-> sc, fn |-> fn, fp |-> fp]
Zero == Float(0, 0, 0, 0)

IsDigitPiece(p) == p[1] = "ch" /\ p[2] \in Digits
IsDigits(t) == Len(t) > 0 /\ \A i \in 1..Len(t) : IsDigitPiece(t[i])

RECURSIVE DigitsVal(_)
DigitsVal(t) == IF t = <<>> THEN 0
                ELSE 10 * DigitsVal(SubSeq(t, 1, Len(t) - 1)) + DigitVal(t[Len(t)][2])

\* the position of the decimal point of t, 0 when it has none
DotAt(t) == IF \E i \in 1..Len(t) : t[i] = Ch(".")
            THEN CHOOSE i \in 1..Len(t) : t[i] = Ch(".") /\ \A j \in 1..(i - 1) : t[j] # Ch(".")
            ELSE 0

RECURSIVE StripZeros(_)
StripZeros(t) == IF t # <<>> /\ t[Len(t)] = Ch("0")
                 THEN StripZeros(SubSeq(t, 1, Len(t) - 1)) ELSE t

\* int(t) succeeds on a run of digits
IsInt(t) == IsDigits(t)
IntOf(t) == DigitsVal(t)

\* float(t) succeeds on digits with at most one decimal point
IsFloat(t) ==
    LET d == DotAt(t) IN
    IF d = 0 THEN IsDigits(t)
    ELSE /\ Len(t) > 1
         /\ \A i \in 1..Len(t) : i # d => IsDigitPiece(t[i])
\* the value: the integer part, and the decimals without trailing zeros
FloatOf(t) ==
    LET d == DotAt(t)
        ip == IF d = 0 THEN t ELSE SubSeq(t, 1, d - 1)
        fp == IF d = 0 THEN <<>> ELSE StripZeros(SubSeq(t, d + 1, Len(t)))
    IN Float(DigitsVal(ip), 0, DigitsVal(fp), Len(fp))

(***************************************************************************)
(* interp_star_status: the listing parser                                  *)
(***************************************************************************)
\* the token that is the keyword s
KW(s) == <<Lit(s)>>
EmptyDict == [x \in {} |-> x]
\* status[st + 80:]
HeaderSkip == 80

\* items[1][-9:] == "CHARACTER", and items[1][:-9]
EndsWithCHARACTER(t) == t[Len(t)] = Lit("CHARACTER")
KeepCHARACTER(t) == t
StripCHARACTER(t) == SubSeq(t, 1, Len(t) - 1)

\* what one line does: "skip", "put" (an entry for items[1]) or "raise"
LineEffect(items) ==
    IF items = <<>> THEN [do |-> "skip"]
    ELSE IF Len(items) = 2 THEN
        IF EndsWithCHARACTER(items[2])
        THEN [do |-> "put",
              rec |-> [type |-> KW("CHARACTER"), value |-> StripCHARACTER(items[2])]]
        ELSE [do |-> "skip"]
    ELSE IF Len(items) = 3 THEN
        IF items[3] = KW("SCALAR") THEN
            IF IsFloat(items[2])
            THEN [do |-> "put", rec |-> [type |-> items[3], value |-> FloatOf(items[2])]]
            ELSE [do |-> "raise"]
        ELSE [do |-> "put", rec |-> [type |-> items[3], value |-> items[2]]]
    ELSE IF Len(items) = 5 THEN
        IF IsInt(items[3]) /\ IsInt(items[4]) /\ IsInt(items[5])
        THEN [do |-> "put",
              rec |-> [type |-> items[2],
                       shape |-> <<IntOf(items[3]), IntOf(items[4]), IntOf(items[5])>>]]
        ELSE [do |-> "raise"]
    ELSE [do |-> "skip"]

RECURSIVE InterpLines(_, _, _)
InterpLines(lines, i, parameters) ==
    LET Step(items, eff) ==
            CASE eff.do = "skip" -> InterpLines(lines, i + 1, parameters)
              [] eff.do = "raise" -> [err |-> "ValueError", parameters |-> EmptyDict]
              [] eff.do = "put" ->
                    InterpLines(lines, i + 1, (items[1] :> eff.rec) @@ parameters)
        Line(items) == Step(items, LineEffect(items))
    IN IF i > Len(lines) THEN [err |-> "none", parameters |-> parameters]
       ELSE Line(Split(lines[i]))

interp_star_status(status) ==
    LET Parse(st) == InterpLines(SplitLines(SliceFrom(status, st + HeaderSkip)), 1, EmptyDict)
    IN Parse(FindHeader(status))

(***************************************************************************)
(* Listing texts for the parser: lines before the header, the header line  *)
(* and the lines after it, each line a sequence of tokens                  *)
(***************************************************************************)
MaxLines == 2

tA == <<Ch("A")>>
tB == <<Ch("B")>>
tX == <<Ch("X")>>
n1 == <<Ch("1")>>
n3 == <<Ch("3")>>
n25 == <<Ch("2"), Ch("."), Ch("5")>>
tStr == <<Ch("s"), Lit("CHARACTER")>>

LineVocab ==
    { <<>>,                                   \* a blank line
      <<tA>>,                                 \* 1 token
      <<tA, tStr>>,                           \* NAME valueCHARACTER
      <<tB, tX>>,                             \* 2 tokens, no CHARACTER suffix
      <<tA, n25, KW("SCALAR")>>,              \* NAME value SCALAR
      <<tB, n3, KW("SCALAR")>>,
      <<tB, tX, KW("SCALAR")>>,               \* SCALAR, the value not a number
      <<tB, tX, KW("CHARACTER")>>,            \* NAME value CHARACTER
      <<tA, n3, KW("ARRAY")>>,                \* 3 tokens, the third ARRAY
      <<tB, tX, n3, n1>>,                     \* 4 tokens
      <<tA, KW("ARRAY"), n3, n1, n1>>,        \* NAME ARRAY I J K
      <<tB, KW("TABLE"), n3, n3, n1>>,
      <<tA, KW("ARRAY"), n3, tX, n1>>,        \* a dimension not an integer
      <<tA, tX, tX, n3, n1, n1>> }            \* 6 tokens

Banner == <<KW("PARAMETER"), KW("STATUS-"), <<Ch("(")>>, n3, KW("PARAMETERS"), KW("DEFINED)")>>
PreVocab == { <<>>, <<Banner>>, <<Banner, <<tX, n1, KW("SCALAR")>> >> }

Bodies == UNION { [1..n -> LineVocab] : n \in 0..MaxLines }
ParseInputs == [pre : PreVocab, hdr : BOOLEAN, body : Bodies]

RECURSIVE JoinTokens(_)
JoinTokens(toks) == IF toks = <<>> THEN <<>>
                    ELSE <<SP>> \o Head(toks) \o JoinTokens(Tail(toks))
RECURSIVE JoinLines(_)
JoinLines(lines) == IF lines = <<>> THEN <<>>
                    ELSE JoinTokens(Head(lines)) \o <<NL>> \o JoinLines(Tail(lines))
HeaderLine == <<SP, Lit(HeaderLit), Lit(HeaderTail), NL>>
RenderStatus(in) ==
    JoinLines(in.pre) \o (IF in.hdr THEN HeaderLine ELSE <<>>) \o JoinLines(in.body)

(***************************************************************************)
(* Formatted numbers: the (1Fw.12) descriptor the array read sends         *)
(***************************************************************************)
Decimals == 12

RECURSIVE NumDigits(_)
NumDigits(n) == IF n < 10 THEN 1 ELSE 1 + NumDigits(n \div 10)
RECURSIVE Pow10(_)
Pow10(k) == IF k = 0 THEN 1 ELSE 10 * Pow10(k - 1)
RECURSIVE NormFrac(_, _)
NormFrac(fn, fp) == IF fn = 0 THEN <<0, 0>>
                    ELSE IF fn % 10 = 0 THEN NormFrac(fn \div 10, fp - 1)
                    ELSE <<fn, fp>>

\* the characters a positive number takes with 12 decimals
FieldWidth(v) == NumDigits(v.int) + v.scale + 1 + Decimals
\* the number a field of 12 decimals holds: v rounded to 12 decimals
Round12(v) ==
    IF v.fp <= Decimals THEN v
    ELSE LET d == v.fp - Decimals
             q == NormFrac((v.fn + (Pow10(d) \div 2)) \div Pow10(d), Decimals)
         IN Float(v.int, v.scale, q[1], q[2])

(***************************************************************************)
(* The remote session (mapdl): its parameters and the commands it runs.    *)
(* A parameter is a scalar, a string or an array of up to three            *)
(* dimensions; names are held in upper case.                               *)
(***************************************************************************)
UpperCh(c) == CASE c = "a" -> "A" [] c = "r" -> "R" [] c = "p" -> "P" [] c = "h" -> "H"
                [] OTHER -> c
\* str.upper()
StrUpper(s) == [i \in 1..Len(s) |-> IF s[i][1] = "ch" THEN Ch(UpperCh(s[i][2])) ELSE s[i]]

Absent == [type |-> "NONE"]
RScalar(v) == [type |-> "SCALAR", value |-> v]
RString(s) == [type |-> "CHARACTER", text |-> s]
Index(dims) == (1..dims[1]) \X (1..dims[2]) \X (1..dims[3])
RArray(dims, el) == [type |-> "ARRAY", dims |-> dims, el |-> el]
IsArr(p) == p.type \in {"ARRAY", "TABLE"}

RGet(r, name) == IF name \in DOMAIN r THEN r[name] ELSE Absent
RPut(r, name, p) == (name :> p) @@ r
RDel(r, name) == [n \in (DOMAIN r) \ {name} |-> r[n]]

HasLead(name) == name # <<>> /\ name[1] = Ch("_")
HasTrail(name) == name # <<>> /\ name[Len(name)] = Ch("_")

\* the commands the store sends
Cmd(c, name, a, v) == [c |-> c, name |-> name, a |-> a, v |-> v]
Blank == <<>>

\* *DIM: declares a zero array; an array must be deleted before it can be
\* dimensioned again
RDim(r, name, dims) ==
    IF IsArr(RGet(r, name)) THEN r
    ELSE RPut(r, name, RArray(dims, [x \in Index(dims) |-> Zero]))
\* NAME(i,j,k)=v
RAssign(r, name, idx, v) ==
    LET On(p) == IF IsArr(p) /\ idx \in Index(p.dims)
                 THEN RPut(r, name, [p EXCEPT !.el[idx] = v])
                 ELSE r
    IN On(RGet(r, name))
\* *SET: without a value it deletes the parameter; a scalar or a string
\* cannot be assigned to the name of an array
RStarSet(r, name, val) ==
    IF val = Blank THEN RDel(r, name)
    ELSE IF IsArr(RGet(r, name)) THEN r
    ELSE RPut(r, name, IF val[1] = "str" THEN RString(val[2]) ELSE RScalar(val[2]))
\* *VREAD with the label IJK and the extents n: i varies fastest in the file
RVRead(r, files, name, fname, n) ==
    LET at(x) == (x[3] - 1) * n[1] * n[2] + (x[2] - 1) * n[1] + x[1]
        Read(p, f) ==
            RPut(r, name,
                 [p EXCEPT !.el = [x \in Index(p.dims) |->
                     IF x \in Index(n) /\ at(x) <= Len(f) THEN f[at(x)] ELSE p.el[x]]])
        On(p) == IF ~IsArr(p) \/ fname \notin DOMAIN files THEN r
                 ELSE Read(p, files[fname])
    IN On(RGet(r, name))

RunCmd(r, files, cmd) ==
    CASE cmd.c = "DIM" -> RDim(r, StrUpper(cmd.name), cmd.a)
      [] cmd.c = "ASSIGN" -> RAssign(r, StrUpper(cmd.name), cmd.a, cmd.v)
      [] cmd.c = "SET" -> RStarSet(r, StrUpper(cmd.name), cmd.v)
      [] cmd.c = "VREAD" -> RVRead(r, files, StrUpper(cmd.name), cmd.v, cmd.a)
      [] OTHER -> r
\* the commands lo..hi of cmds, run in their order (the test r = r has the
\* parameters before a command evaluated before those after it)
RECURSIVE RunCmdsFrom(_, _, _, _, _)
RunCmdsFrom(r, files, cmds, lo, hi) ==
    IF lo > hi \/ r # r THEN r
    ELSE IF lo = hi THEN RunCmd(r, files, cmds[lo])
    ELSE RunCmdsFrom(RunCmdsFrom(r, files, cmds, lo, (lo + hi) \div 2),
                     files, cmds, ((lo + hi) \div 2) + 1, hi)
RunCmds(r, files, cmds) == RunCmdsFrom(r, files, cmds, 1, Len(cmds))

(***************************************************************************)
(* *STATUS: the listing of the parameters.  Without an argument it lists   *)
(* the names with no leading and no trailing underscore, with _PRM those   *)
(* with a leading one, with PRM_ those with a trailing one; a name with    *)
(* both is in no listing.                                                  *)
(***************************************************************************)
Listed(name, filter) ==
    CASE filter = "" -> ~HasLead(name) /\ ~HasTrail(name)
      [] filter = "_PRM" -> HasLead(name) /\ ~HasTrail(name)
      [] filter = "PRM_" -> HasTrail(name) /\ ~HasLead(name)

RECURSIVE RenderNat(_)
RenderNat(n) == IF n < 10 THEN <<Ch(DigitChars[n + 1])>>
                ELSE Append(RenderNat(n \div 10), Ch(DigitChars[(n % 10) + 1]))
RECURSIVE RenderFrac(_, _)
RenderFrac(fn, fp) == IF fp = 0 THEN <<>>
                      ELSE Append(RenderFrac(fn \div 10, fp - 1), Ch(DigitChars[(fn % 10) + 1]))
\* a scalar as the listing prints it: 1.50000
RenderFloat(v) ==
    RenderNat(v.int) \o [i \in 1..v.scale |-> Ch("0")] \o <<Ch(".")>>
        \o RenderFrac(v.fn, v.fp) \o <<Ch("0"), Ch("0")>>

Pad == Lit("    ")
StatusLine(name, p) ==
    <<SP>> \o name \o <<Pad>> \o
    (CASE p.type = "SCALAR" -> RenderFloat(p.value) \o <<Pad, Lit("SCALAR")>>
       [] p.type = "CHARACTER" ->
            p.text \o (IF Len(p.text) < 32 THEN <<Pad>> ELSE <<>>) \o <<Lit("CHARACTER")>>
       [] OTHER -> <<Lit(p.type), Pad>> \o RenderNat(p.dims[1]) \o <<Pad>>
                     \o RenderNat(p.dims[2]) \o <<Pad>> \o RenderNat(p.dims[3]))
    \o <<NL>>

RECURSIVE StatusLines(_, _)
StatusLines(r, names) ==
    IF names = {} THEN <<>>
    ELSE LET n == CHOOSE x \in names : TRUE
         IN StatusLine(n, r[n]) \o StatusLines(r, names \ {n})

StatusBanner == <<SP, Lit("PARAMETER"), SP, Lit("STATUS-"), SP, Ch("("), Pad, Lit("PARAMETERS"),
                  SP, Lit("DEFINED)"), NL, NL>>
starstatus(r, filter) ==
    StatusBanner \o HeaderLine
        \o StatusLines(r, {n \in DOMAIN r : Listed(n, filter)})

(***************************************************************************)
(* The reply to *MWRITE,NAME,,,kji followed by the format (1Fw.12): the    *)
(* echo of the commands, which ends with the format, then one number per   *)
(* line, k varying fastest.  A number wider than the field is printed as   *)
(* a run of asterisks.  The echo may hold asterisks of its own (noise),    *)
(* and a reply may come back short of its last line (glitch).              *)
(***************************************************************************)
Tok(k, w, v) == [k |-> k, w |-> w, v |-> v]

MWriteValues(p) ==
    LET J == p.dims[2]
        K == p.dims[3]
    IN [n \in 1..(p.dims[1] * J * K) |->
            p.el[<<((n - 1) \div (J * K)) + 1, (((n - 1) \div K) % J) + 1, ((n - 1) % K) + 1>>]]

mwrite(r, name, w, noise, glitch) ==
    LET Body(vals) == [n \in 1..Len(vals) |->
                          IF FieldWidth(vals[n]) > w THEN Tok("stars", w, Zero)
                          ELSE Tok("num", w, Round12(vals[n]))]
        Sent(body) == IF glitch /\ Len(body) > 0 THEN SubSeq(body, 1, Len(body) - 1)
                      ELSE body
        Of(p) == Sent(Body(IF IsArr(p) THEN MWriteValues(p) ELSE <<>>))
    IN <<Tok("txt", 0, Zero)>> \o (IF noise THEN <<Tok("stars", 0, Zero)>> ELSE <<>>)
          \o <<Tok("tag", w, Zero)>> \o Of(RGet(r, StrUpper(name)))

(***************************************************************************)
(* numpy arrays and lists: [t, dtype, shape, kind].  The elements of a     *)
(* buffer are given by its kind and their index.                           *)
(***************************************************************************)
RECURSIVE Prod(_)
Prod(shape) == IF shape = <<>> THEN 1 ELSE Head(shape) * Prod(Tail(shape))
Ndim(arr) == Len(arr.shape)
Size(arr) == Prod(arr.shape)
IsNumber(arr) == arr.dtype = "float64"

\* the element at the 0-based index (i, j, k) of the buffer, missing axes 0
Elem(arr, i, j, k) ==
    LET plain == Float(1 + i + 4 * j + 16 * k, 0, 0, 0)
        first == i = 0 /\ j = 0 /\ k = 0
    IN CASE arr.kind = "plain" -> plain
         [] arr.kind = "fine" -> IF first THEN Float(1, 0, 1, 13) ELSE plain
         [] arr.kind = "w30" -> IF first THEN Float(1, 10, 0, 0) ELSE plain
         [] arr.kind = "w40" -> IF first THEN Float(1, 20, 0, 0) ELSE plain
         [] arr.kind = "w64" -> IF first THEN Float(1, 40, 0, 0) ELSE plain
         [] arr.kind = "w100" -> IF first THEN Float(1, 80, 0, 0) ELSE plain
         [] arr.kind = "huge" -> IF first THEN Float(1, 100, 0, 0) ELSE plain

Dim3(arr) == <<arr.shape[1],
               IF Ndim(arr) >= 2 THEN arr.shape[2] ELSE 1,
               IF Ndim(arr) = 3 THEN arr.shape[3] ELSE 1>>
\* arr.ravel("F"): the first index varies fastest
RavelF(arr) ==
    LET d == Dim3(arr)
    IN [n \in 1..Size(arr) |->
            Elem(arr, (n - 1) % d[1], ((n - 1) \div d[1]) % d[2], (n - 1) \div (d[1] * d[2]))]
\* the elements in C order, as numpy holds them
RavelC(arr) ==
    LET d == Dim3(arr)
    IN [n \in 1..Size(arr) |->
            Elem(arr, (n - 1) \div (d[2] * d[3]), ((n - 1) \div d[3]) % d[2], (n - 1) % d[3])]

(***************************************************************************)
(* Parameters: the store                                                   *)
(***************************************************************************)
Letters == {"A", "R", "P", "H", "X", "B", "a", "r", "p", "h", "s"}
IsLetter(p) == p[1] = "ch" /\ p[2] \in Letters
MaxNameLen == 32
ChainLimit == 1000
FormatNumbers == <<20, 30, 40, 64, 100>>
ScratchFile == "_tmp.dat"

\* mapdl._check_parameter_name: "none", or the error it raises
check_parameter_name(key) ==
    IF key.t # "str" THEN "TypeError"
    ELSE IF Len(key.s) = 0 \/ Len(key.s) > MaxNameLen THEN "ValueError"
    ELSE IF ~(IsLetter(key.s[1]) \/ key.s[1] = Ch("_")) THEN "ValueError"
    ELSE IF HasLead(key.s) /\ ~HasTrail(key.s) THEN "ValueError"
    ELSE "none"

\* supress_logging: the level after the wrapped call, which raised or not
supress_logging(prior, raised) ==
    IF prior # "CRITICAL" THEN (IF raised THEN "CRITICAL" ELSE prior) ELSE prior

\* _full_parameter_output.__enter__ and __exit__ on the store's flags
full_enter(f) == [lead |-> TRUE, trail |-> TRUE, savedLead |-> f.lead, savedTrail |-> f.trail]
full_exit_keep(f) == f
full_exit(f) == [f EXCEPT !.lead = f.savedLead, !.trail = f.savedTrail]

\* Parameters._parm under the flags (lead, trail); fault: the session fails
CmdStatus(filter) == Cmd("STATUS", <<>>, <<>>, filter)
_parm(r, lead, trail, fault) ==
    LET c0 == <<CmdStatus("")>>
        c1 == IF lead THEN Append(c0, CmdStatus("_PRM")) ELSE c0
        c2 == IF trail THEN Append(c1, CmdStatus("PRM_")) ELSE c1
        Fail(e, c) == [err |-> e, parameters |-> EmptyDict, cmds |-> c]
        None == [err |-> "none", parameters |-> EmptyDict]
        Merge(p0, p1, p2) ==
            IF p0.err # "none" THEN Fail(p0.err, c0)
            ELSE IF p1.err # "none" THEN Fail(p1.err, c1)
            ELSE IF p2.err # "none" THEN Fail(p2.err, c2)
            ELSE [err |-> "none",
                  parameters |-> p2.parameters @@ p1.parameters @@ p0.parameters,
                  cmds |-> c2]
    IN IF fault THEN Fail("RuntimeError", c0)
       ELSE Merge(interp_star_status(starstatus(r, "")),
                  IF lead THEN interp_star_status(starstatus(r, "_PRM")) ELSE None,
                  IF trail THEN interp_star_status(starstatus(r, "PRM_")) ELSE None)

\* last_response.rfind(format_str) + len(format_str) + 1: the first position
\* after the last echo of the format
RfindTag(resp, w) ==
    LET S == {i \in 1..Len(resp) : resp[i].k = "tag" /\ resp[i].w = w}
    IN IF S = {} THEN 0 ELSE CHOOSE i \in S : \A j \in S : j <= i
StartAfter(resp, w) == RfindTag(resp, w) + 1
\* "**" in last_response[st:]
HasMarkerAnywhere(resp, st) == \E i \in 1..Len(resp) : resp[i].k = "stars"
HasMarker(resp, st) == \E i \in st..Len(resp) : resp[i].k = "stars"
\* np.fromstring(last_response[st:], sep="\n"): the numbers up to the first
\* text that is no number
FromString(resp, st) ==
    LET bad == {i \in st..Len(resp) : resp[i].k # "num"}
        end == IF bad = {} THEN Len(resp) ELSE (CHOOSE i \in bad : \A j \in bad : i <= j) - 1
    IN [n \in 1..(end - st + 1) |-> resp[st + n - 1].v]

\* the loop over the formats: the index of the first format whose reply
\* shows no marker after the format, 0 when none does
RECURSIVE TryFormats(_, _, _, _, _)
TryFormats(r, name, i, noise, glitch) ==
    LET Try(resp) == IF ~HasMarker(resp, StartAfter(resp, FormatNumbers[i])) THEN i
                     ELSE TryFormats(r, name, i + 1, noise, glitch)
    IN IF i > Len(FormatNumbers) THEN 0
       ELSE Try(mwrite(r, name, FormatNumbers[i], noise, glitch))

ReadCmds(name, n) ==
    [x \in 1..(2 * n) |-> IF x % 2 = 1 THEN Cmd("MWRITE", StrUpper(name), <<>>, "kji")
                          ELSE Cmd("FORMAT", <<>>, <<FormatNumbers[x \div 2]>>, Blank)]

\* Parameters._get_parameter_array
get_parameter_array(r, parm_name, shape, noise, glitch) ==
    LET Reshape(e, flat) ==
            IF Len(flat) # Prod(shape)
            THEN [err |-> "ValueError", cmds |-> ReadCmds(parm_name, e),
                  fmt |-> FormatNumbers[e]]
            ELSE [err |-> "none", cmds |-> ReadCmds(parm_name, e), fmt |-> FormatNumbers[e],
                  value |-> [shape |-> IF Len(shape) = 3 /\ shape[3] = 1
                                       THEN <<shape[1], shape[2]>> ELSE shape,
                             data |-> flat]]
        Parse(e, resp) == Reshape(e, FromString(resp, StartAfter(resp, FormatNumbers[e])))
        After(e) ==
            IF e = 0
            THEN [err |-> "RuntimeError", cmds |-> ReadCmds(parm_name, Len(FormatNumbers)),
                  fmt |-> 0]
            ELSE Parse(e, mwrite(r, parm_name, FormatNumbers[e], noise, glitch))
    IN After(TryFormats(r, parm_name, 1, noise, glitch))

\* the failures of an array read that allow a second attempt
RetriedAny(err) == err # "none"
Retried(err) == err = "ValueError"

\* Parameters.__getitem__ on the remote parameters r, the flags f and the
\* log level: the outcome, the commands sent and the flags and level after
getitem(r, f, log, key, fault, noise, g1, g2) ==
    LET K == StrUpper(key.s)
        At(a) == [err |-> a.err, fmt |-> a.fmt]
        fin == full_enter(f)
        fout == full_exit(fin)
        Out(e, c, a, lg) == [err |-> e, cmds |-> c, during |-> <<fin.lead, fin.trail>>,
                             attempts |-> a, f |-> fout, log |-> lg]
        Second(pm, a1, a2, lg) ==
            IF a2.err = "none"
            THEN Out("none", pm.cmds \o a1.cmds \o a2.cmds, <<At(a1), At(a2)>>,
                     supress_logging(lg, FALSE)) @@ [value |-> a2.value]
            ELSE Out(a2.err, pm.cmds \o a1.cmds \o a2.cmds, <<At(a1), At(a2)>>,
                     supress_logging(lg, TRUE))
        First(pm, shape, a1, lg) ==
            IF a1.err = "none"
            THEN Out("none", pm.cmds \o a1.cmds, <<At(a1)>>, supress_logging(lg, FALSE))
                     @@ [value |-> a1.value]
            ELSE IF ~Retried(a1.err)
            THEN Out(a1.err, pm.cmds \o a1.cmds, <<At(a1)>>, supress_logging(lg, TRUE))
            ELSE Second(pm, a1, get_parameter_array(r, K, shape, noise, g2),
                        supress_logging(lg, TRUE))
        Found(pm, parm, lg) ==
            IF parm.type \in {KW("ARRAY"), KW("TABLE")} THEN
                IF "shape" \notin DOMAIN parm THEN Out("KeyError", pm.cmds, <<>>, lg)
                ELSE First(pm, parm.shape, get_parameter_array(r, K, parm.shape, noise, g1), lg)
            ELSE IF "value" \in DOMAIN parm
                 THEN Out("none", pm.cmds, <<>>, lg) @@ [value |-> parm.value]
                 ELSE Out("KeyError", pm.cmds, <<>>, lg)
        Listed_(pm) ==
            IF pm.err # "none" THEN Out(pm.err, pm.cmds, <<>>, supress_logging(log, TRUE))
            ELSE IF K \notin DOMAIN pm.parameters
            THEN Out("IndexError", pm.cmds, <<>>, supress_logging(log, FALSE))
            ELSE Found(pm, pm.parameters[K], supress_logging(log, FALSE))
    IN IF key.t # "str"
       THEN [err |-> "TypeError", cmds |-> <<>>, during |-> <<>>, attempts |-> <<>>,
             f |-> f, log |-> log]
       ELSE Listed_(_parm(r, fin.lead, fin.trail, fault))

\* Parameters._set_array_chain: the declaration, then one assignment per
\* element, k varying fastest
set_array_chain_zero(name, arr, d) ==
    <<Cmd("DIM", name, d, Blank)>> \o
    [n \in 1..(d[1] * d[2] * d[3]) |->
        LET i == (n - 1) \div (d[2] * d[3])
            j == ((n - 1) \div d[3]) % d[2]
            k == (n - 1) % d[3]
        IN Cmd("ASSIGN", name, <<i, j, k>>, Elem(arr, i, j, k))]
set_array_chain(name, arr, d) ==
    <<Cmd("DIM", name, d, Blank)>> \o
    [n \in 1..(d[1] * d[2] * d[3]) |->
        LET i == (n - 1) \div (d[2] * d[3])
            j == ((n - 1) \div d[3]) % d[2]
            k == (n - 1) % d[3]
        IN Cmd("ASSIGN", name, <<i + 1, j + 1, k + 1>>, Elem(arr, i, j, k))]

\* Parameters._write_numpy_array: the file reaches the session's file space
\* directly when the session is local, by an upload when it is not
write_numpy_array(files, local, filename, arr) ==
    LET written == filename :> RavelF(arr)
    IN IF local THEN [files |-> written @@ files, cmds |-> <<>>]
       ELSE [files |-> written @@ files, cmds |-> <<Cmd("UPLOAD", <<>>, <<>>, filename)>>]

\* the sizes that are streamed element by element
UseChainUpTo(arr) == Size(arr) <= ChainLimit
UseChain(arr) == Size(arr) < ChainLimit

\* Parameters._set_parameter_array
set_parameter_array(files, local, key, arr) ==
    LET Raise(e) == [err |-> e, cmds |-> <<>>, files |-> files, wrote |-> <<>>]
    IN IF ~IsNumber(arr) THEN Raise("TypeError")
       ELSE IF Ndim(arr) > 3 THEN Raise("ValueError")
       ELSE IF key.t # "str" THEN Raise("TypeError")
       ELSE LET name == StrUpper(key.s)
                d == Dim3(arr)
                w == write_numpy_array(files, local, ScratchFile, arr)
            IN IF UseChain(arr)
               THEN [err |-> "none", cmds |-> set_array_chain(name, arr, d),
                     files |-> files, wrote |-> <<>>]
               ELSE [err |-> "none",
                     cmds |-> w.cmds \o <<Cmd("DIM", name, d, Blank),
                                          Cmd("VREAD", name, d, ScratchFile),
                                          Cmd("FORMAT", <<>>, <<20>>, Blank)>>,
                     files |-> w.files, wrote |-> <<ScratchFile>>]

\* Parameters._set_parameter
set_parameter(r, files, lead, trail, key, value, fault) ==
    LET Raise(e, c) == [err |-> e, cmds |-> c, files |-> files, wrote |-> <<>>]
        Clear(pm) == IF key.s \in DOMAIN pm.parameters
                        /\ pm.parameters[key.s].type = KW("ARRAY")
                     THEN <<Cmd("SET", key.s, <<>>, Blank)>> ELSE <<>>
        Assign(pm, clear) ==
            IF value.t = "str"
            THEN IF \E i \in 1..Len(value.s) : value.s[i] = SP
                 THEN Raise("ValueError", pm.cmds \o clear)
                 ELSE [err |-> "none", files |-> files, wrote |-> <<>>,
                       cmds |-> pm.cmds \o clear
                                  \o <<Cmd("SET", key.s, <<>>, <<"str", value.s>>)>>]
            ELSE [err |-> "none", files |-> files, wrote |-> <<>>,
                  cmds |-> pm.cmds \o clear \o <<Cmd("SET", key.s, <<>>, <<"num", value.v>>)>>]
        Listed_(pm) == IF pm.err # "none" THEN Raise(pm.err, pm.cmds)
                       ELSE Assign(pm, Clear(pm))
    IN IF value.t \notin {"str", "int", "float"} THEN Raise("TypeError", <<>>)
       ELSE IF key.t # "str" THEN Raise("TypeError", <<>>)
       ELSE IF Len(key.s) > MaxNameLen THEN Raise("ValueError", <<>>)
       ELSE Listed_(_parm(r, lead, trail, fault))

\* Parameters.__setitem__
setitem(r, files, local, f, log, key, value, fault) ==
    LET Done(o) == o @@ [log |-> supress_logging(log, o.err # "none")]
        Checked(e0) ==
            IF e0 # "none"
            THEN [err |-> e0, cmds |-> <<>>, files |-> files, wrote |-> <<>>, log |-> log]
            ELSE IF value.t \in {"ndarray", "list"}
            THEN Done(set_parameter_array(files, local, key, value))
            ELSE Done(set_parameter(r, files, f.lead, f.trail, key, value, fault))
    IN Checked(check_parameter_name(key))

\* Parameters.__repr__: the names it prints
repr(r, f, log, fault) ==
    LET NoShape(d) == \E n \in DOMAIN d : /\ d[n].type \in {KW("ARRAY"), KW("TABLE")}
                                          /\ "shape" \notin DOMAIN d[n]
        Printed(d) == {n \in DOMAIN d :
                         \/ d[n].type \in {KW("ARRAY"), KW("TABLE"), KW("CHARACTER")}
                         \/ "value" \in DOMAIN d[n]}
        Listed_(pm) ==
            IF pm.err # "none"
            THEN [err |-> pm.err, cmds |-> pm.cmds, shown |-> {},
                  log |-> supress_logging(log, TRUE)]
            ELSE IF NoShape(pm.parameters)
            THEN [err |-> "KeyError", cmds |-> pm.cmds, shown |-> {}, log |-> log]
            ELSE [err |-> "none", cmds |-> pm.cmds, shown |-> Printed(pm.parameters),
                  log |-> log]
    IN Listed_(_parm(r, f.lead, f.trail, fault))

(***************************************************************************)
(* The calls on the store.  Each is one action: it runs the whole method   *)
(* and leaves in `last` what the call was given, what it sent to the       *)
(* session and how it ended.                                               *)
(***************************************************************************)
Flags == [lead |-> showLead, trail |-> showTrail,
          savedLead |-> savedLead, savedTrail |-> savedTrail]
Canon(key) == IF key.t = "str" THEN StrUpper(key.s) ELSE <<>>

\* the conditions of the session during one call
Envs == {e \in [fault : BOOLEAN, noise : BOOLEAN, g1 : BOOLEAN, g2 : BOOLEAN] :
            /\ e.fault => ~e.noise /\ ~e.g1
            /\ ~e.g1 => ~e.g2}

\* value = store[key]
GetItem(key, env) ==
    LET Do(o) ==
            /\ showLead' = o.f.lead
            /\ showTrail' = o.f.trail
            /\ savedLead' = o.f.savedLead
            /\ savedTrail' = o.f.savedTrail
            /\ logLevel' = o.log
            /\ last' = [op |-> "get", key |-> key, env |-> env,
                        pre |-> <<showLead, showTrail>>, preLog |-> logLevel,
                        err |-> o.err, cmds |-> o.cmds, during |-> o.during,
                        attempts |-> o.attempts,
                        value |-> IF o.err = "none" THEN o.value ELSE <<>>,
                        after |-> IF last.op = "set" /\ last.err = "none"
                                     /\ Canon(last.key) = Canon(key)
                                  THEN <<last.value>> ELSE <<>>]
            /\ UNCHANGED <<remote, isLocal, rfiles, input,
                           scopes, routine>>
    IN Do(getitem(remote, Flags, logLevel, key, env.fault, env.noise, env.g1, env.g2))

\* store[key] = value
SetItem(key, value, fault) ==
    LET Do(o, after) ==
            /\ remote' = after
            /\ rfiles' = o.files
            /\ logLevel' = o.log
            /\ last' = [op |-> "set", key |-> key, value |-> value, fault |-> fault,
                        pre |-> <<showLead, showTrail>>, preLog |-> logLevel,
                        preType |-> RGet(remote, Canon(key)).type,
                        err |-> o.err, cmds |-> o.cmds, wrote |-> o.wrote,
                        changed |-> after # remote]
            /\ UNCHANGED <<showLead, showTrail, savedLead, savedTrail, isLocal, input,
                           scopes, routine>>
        Sent(o) == Do(o, RunCmds(remote, o.files, o.cmds))
    IN Sent(setitem(remote, rfiles, isLocal, Flags, logLevel, key, value, fault))

\* store.show_leading_underscore_parameters = b
SetShowLeading(b) ==
    /\ showLead' = b
    /\ last' = [op |-> "show_leading", value |-> b]
    /\ UNCHANGED <<remote, showTrail, savedLead, savedTrail, logLevel, isLocal, rfiles, input,
                           scopes, routine>>

\* store.show_trailing_underscore_parameters = b
SetShowTrailing(b) ==
    /\ showTrail' = b
    /\ last' = [op |-> "show_trailing", value |-> b]
    /\ UNCHANGED <<remote, showLead, savedLead, savedTrail, logLevel, isLocal, rfiles, input,
                           scopes, routine>>

\* print(store)
Repr(fault) ==
    LET Do(o) ==
            /\ logLevel' = o.log
            /\ last' = [op |-> "repr", fault |-> fault, pre |-> <<showLead, showTrail>>,
                        preLog |-> logLevel, err |-> o.err, cmds |-> o.cmds,
                        shown |-> o.shown]
            /\ UNCHANGED <<remote, showLead, showTrail, savedLead, savedTrail, isLocal,
                           rfiles, input,
                           scopes, routine>>
    IN Do(repr(remote, Flags, logLevel, fault))

(***************************************************************************)
(* The values and the names the calls are made with                        *)
(***************************************************************************)
PyStr(s) == [t |-> "str", s |-> s]
PyFloat(v) == [t |-> "float", v |-> v]
PyArray(shape, kind) == [t |-> "ndarray", dtype |-> "float64", shape |-> shape, kind |-> kind]
PyList(shape, kind) == [t |-> "list", dtype |-> "float64", shape |-> shape, kind |-> kind]
IsBuffer(v) == v.t \in {"ndarray", "list"}

nARR == <<Ch("A"), Ch("R"), Ch("R")>>
nLower == <<Ch("a"), Ch("r"), Ch("r")>>
nTrail == <<Ch("P"), Ch("_")>>
nHidden == <<Ch("_"), Ch("H"), Ch("_")>>
nReserved == <<Ch("_"), Ch("R")>>
nDigit == <<Ch("3"), Ch("X")>>
nLong == [i \in 1..(MaxNameLen + 1) |-> Ch("A")]
nUnknown == <<Ch("X")>>

Calm == [fault |-> FALSE, noise |-> FALSE, g1 |-> FALSE, g2 |-> FALSE]
Faulty == [Calm EXCEPT !.fault = TRUE]

\* the session holds its own reserved parameters from the start
InitRemote == nReserved :> RScalar(Zero)

InitStore ==
    /\ remote = InitRemote
    /\ showLead = FALSE
    /\ showTrail = FALSE
    /\ savedLead = "None"
    /\ savedTrail = "None"
    /\ logLevel = "ERROR"
    /\ rfiles = EmptyDict
    /\ scopes = <<>>
    /\ routine = "Begin level"
    /\ last = [op |-> "init", err |-> "none"]

(***************************************************************************)
(* Spec: the store with scalars, strings and one small array, under every  *)
(* setting of the visibility flags                                         *)
(***************************************************************************)
SmallLen == 2
OnePointFive == Float(1, 0, 5, 1)

ValidKeys == {PyStr(nARR), PyStr(nLower), PyStr(nTrail), PyStr(nHidden)}
InvalidKeys == {PyStr(nReserved), PyStr(nDigit), PyStr(nLong), [t |-> "int"]}
GetKeys == {PyStr(nARR), PyStr(nTrail), PyStr(nHidden), PyStr(nUnknown), [t |-> "int"]}

BadValues == {PyStr(<<Ch("a"), SP, Ch("b")>>), [t |-> "NoneType"]}
BadBuffers == {[t |-> "list", dtype |-> "<U1", shape |-> <<SmallLen>>, kind |-> "plain"],
               PyArray(<<1, 1, 1, 1>>, "plain")}
SetInputs ==
    (ValidKeys \X {PyFloat(OnePointFive)})
        \cup ({PyStr(nARR)} \X ({PyList(<<SmallLen>>, "plain")} \cup BadValues \cup BadBuffers))
        \cup (InvalidKeys \X {PyFloat(OnePointFive)})

Init == InitStore /\ isLocal = TRUE /\ input = <<>>

Next ==
    \/ \E key \in GetKeys : GetItem(key, Calm)
    \/ GetItem(PyStr(nARR), Faulty)
    \/ \E in \in SetInputs : SetItem(in[1], in[2], FALSE)
    \/ SetItem(PyStr(nARR), PyFloat(OnePointFive), TRUE)
    \/ \E b \in BOOLEAN : SetShowLeading(b)
    \/ \E b \in BOOLEAN : SetShowTrailing(b)
    \/ \E fault \in BOOLEAN : Repr(fault)

Spec == Init /\ [][Next]_vars

(***************************************************************************)
(* SpecArr: small buffers of every rank written under one name and read   *)
(* back under every condition of the session                               *)
(***************************************************************************)
MaxDim == 2

ArrShapes == {<<MaxDim + 1>>, <<MaxDim, 1>>, <<MaxDim, MaxDim>>, <<MaxDim, MaxDim, 1>>,
              <<1, MaxDim, MaxDim>>}
WideKinds == {"fine", "w30", "w40", "w64", "w100", "huge"}
ArrValues == {PyArray(sh, "plain") : sh \in ArrShapes}
                 \cup {PyArray(<<MaxDim>>, k) : k \in WideKinds}
                 \cup {PyList(<<MaxDim, MaxDim>>, "w30"), PyFloat(OnePointFive),
                       PyStr(<<Ch("s")>>)}

NextArr ==
    \/ \E env \in Envs : GetItem(PyStr(nARR), env)
    \/ \E v \in ArrValues : SetItem(PyStr(nARR), v, FALSE)

SpecArr == Init /\ [][NextArr]_vars

(***************************************************************************)
(* SpecFile: buffers on either side of the size where the store changes    *)
(* from streaming to a file, on a local and on a distant session           *)
(***************************************************************************)
FileValues == {PyArray(<<ChainLimit - 1>>, "plain"), PyArray(<<ChainLimit>>, "plain"),
               PyList(<<ChainLimit \div 2, 2>>, "plain"), PyArray(<<ChainLimit>>, "w30"),
               PyArray(<<MaxDim>>, "plain"),
               PyFloat(OnePointFive)}

InitFile == InitStore /\ isLocal \in BOOLEAN /\ input = <<>>

NextFile ==
    \/ \E v \in FileValues : SetItem(PyStr(nARR), v, FALSE)
    \/ Repr(FALSE)

SpecFile == InitFile /\ [][NextFile]_vars

(***************************************************************************)
(* SpecParse: the parser on listings of up to MaxLines lines               *)
(***************************************************************************)
\* parameters = interp_star_status(status)
Interp ==
    LET Do(o) ==
            /\ last' = [op |-> "parse", err |-> o.err, parameters |-> o.parameters]
            /\ UNCHANGED <<remote, showLead, showTrail, savedLead, savedTrail, logLevel,
                           isLocal, rfiles, input,
                           scopes, routine>>
    IN Do(interp_star_status(RenderStatus(input)))

InitParse == InitStore /\ isLocal = TRUE /\ input \in ParseInputs

NextParse == Interp

SpecParse == InitParse /\ [][NextParse]_vars

(***************************************************************************)
(* SpecScope: a caller that opens "with store.full_parameters_output"      *)
(* blocks inside one another, up to MaxDepth deep, sets the flags and      *)
(* reads parameters inside them                                            *)
(***************************************************************************)
MaxDepth == 2

\* with store.full_parameters_output: (the entry of the block)
ScopeEnter ==
    LET Do(f) ==
            /\ showLead' = f.lead
            /\ showTrail' = f.trail
            /\ savedLead' = f.savedLead
            /\ savedTrail' = f.savedTrail
            /\ scopes' = Append(scopes, <<showLead, showTrail>>)
            /\ last' = [op |-> "enter", pre |-> <<showLead, showTrail>>,
                        depth |-> Len(scopes) + 1]
            /\ UNCHANGED <<remote, logLevel, isLocal, rfiles, input, routine>>
    IN Len(scopes) < MaxDepth /\ Do(full_enter(Flags))

\* the end of the innermost open block
ScopeExit ==
    LET Do(f) ==
            /\ showLead' = f.lead
            /\ showTrail' = f.trail
            /\ savedLead' = f.savedLead
            /\ savedTrail' = f.savedTrail
            /\ scopes' = SubSeq(scopes, 1, Len(scopes) - 1)
            /\ last' = [op |-> "exit", pre |-> <<showLead, showTrail>>,
                        entry |-> scopes[Len(scopes)], depth |-> Len(scopes)]
            /\ UNCHANGED <<remote, logLevel, isLocal, rfiles, input, routine>>
    IN scopes # <<>> /\ Do(full_exit(Flags))

NextScope ==
    \/ ScopeEnter
    \/ ScopeExit
    \/ \E b \in BOOLEAN : SetShowLeading(b)
    \/ \E b \in BOOLEAN : SetShowTrailing(b)
    \/ \E key \in {PyStr(nReserved), PyStr(nUnknown)} : GetItem(key, Calm)

SpecScope == Init /\ [][NextScope]_vars

(***************************************************************************)
(* SpecPrep: methods wrapped by run_as_prep7, called in every routine of   *)
(* the session, between reads of the store                                 *)
(***************************************************************************)
\* the values of ROUTINE_MAP
Routines == {"Begin level", "PREP7", "SOLUTION", "POST1", "POST26", "AUX2", "AUX3", "AUX12",
             "AUX15"}

\* the session's routine after mapdl.prep7(), mapdl.finish() and
\* mapdl.run("/<routine>")
AfterPrep7(rt) == "PREP7"
AfterFinish(rt) == "Begin level"
AfterRun(rt, name) == name

\* run_as_prep7: the wrapper around a method that raises or returns; the
\* routine while the method runs, the routine after, and the calls made
run_as_prep7(prior_processor, raises) ==
    LET Body(during, c) ==
            IF raises
            THEN [err |-> "Exception", during |-> during, cmds |-> c, routine |-> during]
            ELSE IF prior_processor = "Begin level"
            THEN [err |-> "none", during |-> during, cmds |-> Append(c, "finish"),
                  routine |-> AfterFinish(during)]
            ELSE IF prior_processor # "PREP7"
            THEN [err |-> "none", during |-> during, cmds |-> Append(c, "run"),
                  routine |-> AfterRun(during, prior_processor)]
            ELSE [err |-> "none", during |-> during, cmds |-> c, routine |-> during]
    IN IF prior_processor # "PREP7" THEN Body(AfterPrep7(prior_processor), <<"prep7">>)
       ELSE Body(prior_processor, <<>>)

\* a call of a method wrapped by run_as_prep7; holder: the method belongs
\* to an object that refers to the session by its field _mapdl
Wrapped(holder, raises) ==
    LET Do(o) ==
            /\ routine' = o.routine
            /\ last' = [op |-> "prep7", holder |-> holder, raises |-> raises,
                        pre |-> routine, during |-> o.during, err |-> o.err,
                        cmds |-> o.cmds]
            /\ UNCHANGED <<remote, showLead, showTrail, savedLead, savedTrail, logLevel,
                           isLocal, rfiles, input, scopes>>
    IN Do(run_as_prep7(routine, raises))

\* the caller moves the session to another routine
Enter(rt) ==
    /\ routine' = AfterRun(routine, rt)
    /\ last' = [op |-> "enter_routine", pre |-> routine]
    /\ UNCHANGED <<remote, showLead, showTrail, savedLead, savedTrail, logLevel, isLocal,
                   rfiles, input, scopes>>

NextPrep ==
    \/ \E holder \in BOOLEAN, raises \in BOOLEAN : Wrapped(holder, raises)
    \/ \E rt \in Routines : Enter(rt)
    \/ \E key \in {PyStr(nReserved), PyStr(nUnknown)} : GetItem(key, Calm)

SpecPrep == Init /\ [][NextPrep]_vars

(***************************************************************************)
(* SpecCreated: last_created on lists of up to MaxFiles files, each with   *)
(* a creation time in 1..MaxTime                                           *)
(***************************************************************************)
MaxFiles == 4
MaxTime == 3

FileNames == <<"file0.rst", "file1.rst", "file2.rst", "file3.rst", "file4.rst", "file5.rst">>
\* the lists of files: each file a name and what creation_time gives for it
FileLists ==
    UNION { {[i \in 1..n |-> [name |-> FileNames[i], ctime |-> c[i]]] :
                c \in [1..n -> 1..MaxTime]} : n \in 0..MaxFiles }

\* np.argmax: the first position of the greatest element
ArgMax(xs) == CHOOSE i \in 1..Len(xs) :
                  /\ \A j \in 1..Len(xs) : xs[j] <= xs[i]
                  /\ \A j \in 1..(i - 1) : xs[j] < xs[i]
\* len(set(xs))
LenSet(xs) == Cardinality({xs[i] : i \in 1..Len(xs)})

\* last_created: the name it returns, or the error of np.argmax on no file
last_created(filenames) ==
    LET ctimes == [i \in 1..Len(filenames) |-> filenames[i].ctime]
    IN IF filenames = <<>> THEN [err |-> "ValueError", out |-> ""]
       ELSE IF LenSet(ctimes) # 0
       THEN [err |-> "none", out |-> filenames[Len(filenames)].name]
       ELSE [err |-> "none", out |-> filenames[ArgMax(ctimes)].name]

\* name = last_created(filenames)
LastCreated ==
    LET Do(o) ==
            /\ last' = [op |-> "last_created", err |-> o.err, out |-> o.out]
            /\ UNCHANGED <<remote, showLead, showTrail, savedLead, savedTrail, logLevel,
                           isLocal, rfiles, input, scopes, routine>>
    IN Do(last_created(input))

InitCreated == InitStore /\ isLocal = TRUE /\ input \in FileLists

NextCreated == LastCreated

SpecCreated == InitCreated /\ [][NextCreated]_vars

(***************************************************************************)
(* The properties                                                          *)
(***************************************************************************)
IsAssign(c) == c.c = "ASSIGN"
IsVRead(c) == c.c = "VREAD"
IsFormat(c) == c.c = "FORMAT"
Widths(cmds) == [i \in 1..Len(SelectSeq(cmds, IsFormat)) |-> SelectSeq(cmds, IsFormat)[i].a[1]]
MaxOf(S) == CHOOSE x \in S : \A y \in S : y <= x
MinOf(S) == CHOOSE x \in S : \A y \in S : x <= y

\* C1: a buffer of rank 1, 2 or 3 that was set and is then read comes back
\* with the shape it was given and the same element at every index
C1_RoundTrip ==
    (last.op = "get" /\ last.err = "none" /\ last.after # <<>> /\ IsBuffer(last.after[1]))
        => /\ last.value.shape = last.after[1].shape
           /\ last.value.data = RavelC(last.after[1])

\* C2: after a get, whatever its outcome, the two visibility flags are what
\* they were before it, and the listing inside the scope ran with both set
C2_FlagsRestored ==
    last.op = "get" =>
        /\ <<showLead, showTrail>> = last.pre
        /\ last.key.t = "str" => last.during = <<TRUE, TRUE>>
        /\ last.key.t # "str" => last.during = <<>>
C2_Witness ==
    /\ last.op = "get"
    /\ last.err = "RuntimeError"
    /\ last.pre = <<FALSE, TRUE>>
    /\ last.during = <<TRUE, TRUE>>

\* C3: a set that fails its validation sent no command to the session and
\* left the session's parameters as they were
C3_ValidationFirst ==
    (last.op = "set" /\ ~last.fault /\ last.err \in {"TypeError", "ValueError"})
        => last.cmds = <<>> /\ ~last.changed

\* C4: an array read asks for the widths 20, 30, 40, 64, 100 in this order,
\* stops at the first whose reply shows no marker after the format, reads
\* the numbers after the format only, and fails without a buffer when no
\* width is wide enough
Fits(p, w) == \A x \in Index(p.dims) : FieldWidth(p.el[x]) <= w
FitIndexes(p) == {i \in 1..Len(FormatNumbers) : Fits(p, FormatNumbers[i])}
C4_Escalation ==
    (last.op = "get" /\ last.attempts # <<>>) =>
        LET p == remote[nARR]
            none == FitIndexes(p) = {}
            e == IF none THEN Len(FormatNumbers) ELSE MinOf(FitIndexes(p))
            once == SubSeq(FormatNumbers, 1, e)
        IN /\ \A i \in DOMAIN last.attempts :
                  last.attempts[i].fmt = IF none THEN 0 ELSE FormatNumbers[e]
           /\ Widths(last.cmds) = IF Len(last.attempts) = 1 THEN once ELSE once \o once
           /\ none => last.err = "RuntimeError" /\ last.value = <<>>
           /\ (~none /\ last.err = "none") =>
                  last.value.data = [n \in 1..Len(MWriteValues(p)) |->
                                        Round12(MWriteValues(p)[n])]
C4_Witness ==
    /\ last.op = "get"
    /\ last.env.noise
    /\ last.err = "none"
    /\ Len(last.attempts) = 1
    /\ last.attempts[1].fmt = FormatNumbers[3]
    /\ Widths(last.cmds) = SubSeq(FormatNumbers, 1, 3)

\* C5: a buffer of 1000 elements or more goes through the file and no
\* element is assigned on its own; a buffer of 999 or fewer is assigned
\* element by element, with no file written and no file read
C5_Threshold ==
    (last.op = "set" /\ IsBuffer(last.value) /\ last.err = "none") =>
        IF Size(last.value) >= 1000
        THEN /\ Len(SelectSeq(last.cmds, IsAssign)) = 0
             /\ Len(SelectSeq(last.cmds, IsVRead)) = 1
             /\ last.wrote = <<ScratchFile>>
        ELSE /\ Len(SelectSeq(last.cmds, IsAssign)) = Size(last.value)
             /\ Len(SelectSeq(last.cmds, IsVRead)) = 0
             /\ last.wrote = <<>>
C5_Witness ==
    /\ last.op = "set"
    /\ IsBuffer(last.value)
    /\ Size(last.value) = 1000
    /\ last.err = "none"
    /\ last.wrote = <<ScratchFile>>

\* C6: each line after the header is one record, classified by its number
\* of tokens: 2 with the CHARACTER suffix a string without the suffix, 3
\* ending in SCALAR a scalar, 5 an array or table with its three extents;
\* any other line, and any line before the header, adds no entry
LineClass(items) ==
    CASE Len(items) = 2 /\ items[2][Len(items[2])] = Lit("CHARACTER") -> "String"
      [] Len(items) = 3 /\ items[3] = KW("SCALAR") -> "Scalar"
      [] Len(items) = 3 /\ items[3] # KW("SCALAR") -> "Other"
      [] Len(items) = 5 -> "Array"
      [] OTHER -> "None"
Recording(body, n) ==
    {i \in DOMAIN body : LineClass(body[i]) # "None" /\ body[i][1] = n}
C6_Classification ==
    (last.op = "parse" /\ input.hdr /\ last.err = "none") =>
        \A n \in {tA, tB, tX} \cup DOMAIN last.parameters :
            IF Recording(input.body, n) = {} THEN n \notin DOMAIN last.parameters
            ELSE LET it == input.body[MaxOf(Recording(input.body, n))]
                 IN /\ n \in DOMAIN last.parameters
                    /\ LineClass(it) = "String" =>
                          last.parameters[n] =
                              [type |-> KW("CHARACTER"),
                               value |-> SubSeq(it[2], 1, Len(it[2]) - 1)]
                    /\ LineClass(it) = "Scalar" =>
                          last.parameters[n] = [type |-> KW("SCALAR"), value |-> FloatOf(it[2])]
                    /\ LineClass(it) = "Array" =>
                          last.parameters[n] =
                              [type |-> it[2],
                               shape |-> <<IntOf(it[3]), IntOf(it[4]), IntOf(it[5])>>]
C6_Witness ==
    /\ last.op = "parse"
    /\ input.hdr
    /\ input.pre = <<Banner, <<tX, n1, KW("SCALAR")>> >>
    /\ input.body = << <<tB, tX, n3, n1>>, <<tA, KW("ARRAY"), n3, n1, n1>> >>
    /\ last.err = "none"
    /\ last.parameters = (tA :> [type |-> KW("ARRAY"), shape |-> <<3, 1, 1>>])

\* C7: the parser raises on no text; a malformed line is dropped and the
\* other lines are still recorded
C7_NeverRaises ==
    last.op = "parse" =>
        /\ last.err = "none"
        /\ input.hdr => \A i \in DOMAIN input.body :
                            LineClass(input.body[i]) = "String"
                                => input.body[i][1] \in DOMAIN last.parameters

\* C8: a get makes at most two array reads, the second only after the
\* first failed to parse its values; the failure of the second, an unknown
\* name and the exhaustion of the widths reach the caller with no retry
C8_OneRetry ==
    last.op = "get" =>
        /\ Len(last.attempts) <= 2
        /\ (last.attempts # <<>> /\ last.attempts[1].err = "ValueError")
               <=> Len(last.attempts) = 2
        /\ last.attempts # <<>> => last.err = last.attempts[Len(last.attempts)].err
        /\ last.err = "IndexError" => last.attempts = <<>>
C8_Witness ==
    /\ last.op = "get"
    /\ Len(last.attempts) = 2
    /\ last.attempts[1].err = "ValueError"
    /\ last.err = "ValueError"

\* C9: a name with a leading and a trailing underscore that was set is
\* returned by a get of that name, and no enumeration shows it
C9_HiddenNames ==
    /\ (last.op = "get" /\ last.key = PyStr(nHidden) /\ last.after # <<>>
            /\ ~last.env.fault)
          => last.err = "none" /\ last.value = last.after[1].v
    /\ last.op = "repr" => nHidden \notin last.shown

\* C10: a buffer written under a name that holds an array is preceded by
\* the clearing of that name, before the dimensions are declared, and the
\* parameter ends with the shape of the buffer
C10_ClearThenDeclare ==
    (last.op = "set" /\ IsBuffer(last.value) /\ last.err = "none"
        /\ last.preType = "ARRAY") =>
        /\ \E i, j \in DOMAIN last.cmds :
              /\ i < j
              /\ last.cmds[i].c = "SET" /\ last.cmds[i].v = Blank
              /\ last.cmds[j].c = "DIM"
        /\ remote[Canon(last.key)].dims = Dim3(last.value)

\* C11: a scalar or a string set under a name that holds an array, the name
\* in any letter case and under any visibility flags, is preceded by the
\* clearing of that name
C11_ClearBeforeAssign ==
    (last.op = "set" /\ ~IsBuffer(last.value) /\ last.err = "none"
        /\ last.preType = "ARRAY") =>
        \E i, j \in DOMAIN last.cmds :
            /\ i < j
            /\ last.cmds[i].c = "SET" /\ last.cmds[i].v = Blank
            /\ StrUpper(last.cmds[i].name) = Canon(last.key)
            /\ last.cmds[j].c = "SET" /\ last.cmds[j].v # Blank

\* C12: nested full-visibility blocks of one store restore like a stack:
\* each exit puts back the flags in force at its matching entry
C12_ScopeStack ==
    last.op = "exit" => <<showLead, showTrail>> = last.entry

\* C13: a method wrapped by run_as_prep7 runs in PREP7, and after the
\* wrapper, the method having returned or raised, the session is in the
\* routine it was in before the call
C13_RoutineRestored ==
    last.op = "prep7" => last.during = "PREP7" /\ routine = last.pre

\* C14: last_created of a list that is not empty returns a file whose
\* creation time is the latest of the list, and the last file of the list
\* when all the creation times are the same
C14_LatestCreated ==
    (last.op = "last_created" /\ input # <<>>) =>
        /\ last.err = "none"
        /\ \E i \in 1..Len(input) :
              /\ input[i].name = last.out
              /\ \A j \in 1..Len(input) : input[j].ctime <= input[i].ctime
        /\ (\A i, j \in 1..Len(input) : input[i].ctime = input[j].ctime)
              => last.out = input[Len(input)].name

\* C15: the chain for a buffer of dimensions (I, J, K), a missing one
\* being 1, declares the dimensions first and then assigns each index
\* (i, j, k) from (1, 1, 1) to (I, J, K) exactly once, with the element of
\* the buffer at the position one less in each axis
C15_ChainOrder ==
    (last.op = "set" /\ IsBuffer(last.value) /\ last.err = "none"
        /\ Size(last.value) < 1000) =>
        LET sh == last.value.shape
            I == sh[1]
            J == IF Len(sh) >= 2 THEN sh[2] ELSE 1
            K == IF Len(sh) >= 3 THEN sh[3] ELSE 1
            asg == SubSeq(last.cmds, 2, Len(last.cmds))
        IN /\ last.cmds[1].c = "DIM"
           /\ last.cmds[1].name = Canon(last.key)
           /\ last.cmds[1].a = <<I, J, K>>
           /\ Len(asg) = I * J * K
           /\ \A n \in 1..Len(asg) : asg[n].c = "ASSIGN" /\ asg[n].name = Canon(last.key)
           /\ \A i \in 1..I, j \in 1..J, k \in 1..K :
                 /\ Cardinality({n \in 1..Len(asg) : asg[n].a = <<i, j, k>>}) = 1
                 /\ \A n \in 1..Len(asg) :
                       asg[n].a = <<i, j, k>>
                           => asg[n].v = Elem(last.value, i - 1, j - 1, k - 1)
C15_Witness ==
    /\ last.op = "set"
    /\ IsBuffer(last.value)
    /\ last.err = "none"
    /\ Len(last.value.shape) = 3
    /\ last.value.shape[2] > 1
    /\ last.value.shape[3] > 1
    /\ Len(last.cmds) = 1 + Size(last.value)

\* C16: after a call that runs under supress_logging (the listing, the
\* scalar set, the array read, the array write), whether it returned or
\* raised, the log level is the level before the call
C16_LogLevelRestored ==
    last.op \in {"get", "set", "repr"} => logLevel = last.preLog

\* C17: every record of kind ARRAY or TABLE that the parser produces
\* carries a shape, which is what a get and the enumeration read from it
C17_ShapeCarried ==
    (last.op = "parse" /\ last.err = "none") =>
        \A n \in DOMAIN last.parameters :
            last.parameters[n].type \in {KW("ARRAY"), KW("TABLE")}
                => "shape" \in DOMAIN last.parameters[n]

=============================================================================
